---- MODULE Spec2Model ----
(***************************************************************************)
(* State-machine model of the APT History log text parser plugin           *)
(* (plaso/parsers/text_plugins/apt_history.py) and of the XLSX output      *)
(* module (plaso/output/xlsx.py).                                          *)
(*                                                                         *)
(* Text is a sequence of one-character strings, so that str.strip() and    *)
(* command[:-1] are computed and not assumed.  An optional value (a Python *)
(* attribute that may be None) is a sequence of length at most one:        *)
(* None is << >> and a present value v is << v >>.                         *)
(***************************************************************************)
EXTENDS Integers, Sequences, FiniteSets, TLC

VARIABLES
    _event_data,   \* the plugin's self._event_data: None or one event data
    emitted,       \* event data handed to parser_mediator.ProduceEventData
    warnings,      \* messages given to ProduceExtractionWarning
    lines,         \* the (key, structure) pairs fed to _ParseRecord so far
    call,          \* the last call made on the plugin and its argument
    raised,        \* the exception the last call propagated to its caller
    returned,      \* the value the last call returned (None when it raised)
    first,         \* None, or an earlier session: what it was fed and gave
    _filename,     \* the output module's self._filename
    _fields,       \* self._fields: the names of the fields to output
    _timestamp_format,   \* self._timestamp_format
    _workbook,     \* self._workbook: None or the xlsxwriter workbook
    _sheet,        \* self._sheet: None or the worksheet and what it was given
    _current_row,  \* self._current_row
    _column_widths,      \* self._column_widths
    files,         \* the names of the files that exist
    event_errors,  \* messages given to _ReportEventError
    lifecycle      \* the calls of the output module so far and their outcome

\* The variables of the parser plugin and those of the output module.
plugin_vars == <<_event_data, emitted, warnings, lines, first>>

xlsx_vars ==
    <<_filename, _fields, _timestamp_format, _workbook, _sheet, _current_row,
      _column_widths, files, event_errors, lifecycle>>

\* The last call of a method of the plugin, or of a method called on its own.
last_call == <<call, raised, returned>>

vars == <<plugin_vars, last_call, xlsx_vars>>

----------------------------------------------------------------------------
(* Bounds of the model.                                                    *)

\* Number of lines fed to _ParseRecord in one session.
MaxLines == 4

\* Number of lines fed to a session that a new session is then compared with.
MaxReplayedLines == 3

\* Number of calls of Open, SetFields, WriteHeader, WriteEventBody and Close
\* made on one output module.
MaxCalls == 4

\* Number of lines fed to a session that is also probed.
MaxProbedLines == 2

----------------------------------------------------------------------------
(* Optional values.                                                        *)

None == << >>

Some(v) == << v >>

IsNone(o) == o = << >>

\* The value of an optional that is not None.
Get(o) == o[1]

----------------------------------------------------------------------------
(* Text.                                                                   *)

\* Characters that str.strip() removes.
Whitespace == {" ", "\t"}

RECURSIVE LStrip(_)
LStrip(s) ==
    IF s # << >> /\ Head(s) \in Whitespace THEN LStrip(Tail(s)) ELSE s

RECURSIVE RStrip(_)
RStrip(s) ==
    IF s # << >> /\ s[Len(s)] \in Whitespace
    THEN RStrip(SubSeq(s, 1, Len(s) - 1))
    ELSE s

\* body.lstrip(): only the leading whitespace is removed.
LStripOnly(s) == LStrip(s)

\* body.strip()
Strip(s) == RStrip(LStrip(s))

\* command[:-1]
DropLast(s) == SubSeq(s, 1, Len(s) - 1)

\* The literals of _RECORD_BODY.
KwCommandline == <<"C","o","m","m","a","n","d","l","i","n","e",":">>
KwDowngrade == <<"D","o","w","n","g","r","a","d","e",":">>
KwError == <<"E","r","r","o","r",":">>
KwInstall == <<"I","n","s","t","a","l","l",":">>
KwPurge == <<"P","u","r","g","e",":">>
KwRemove == <<"R","e","m","o","v","e",":">>
KwRequestedBy == <<"R","e","q","u","e","s","t","e","d","-","B","y",":">>
KwUpgrade == <<"U","p","g","r","a","d","e",":">>

BodyKeywords ==
    {KwCommandline, KwDowngrade, KwError, KwInstall, KwPurge, KwRemove,
     KwRequestedBy, KwUpgrade}

\* The keywords of the last branch of _ParseRecordBody.
PackageKeywords == {KwDowngrade, KwInstall, KwPurge, KwRemove, KwUpgrade}

----------------------------------------------------------------------------
(* Date and time.                                                          *)

IsLeapYear(year) ==
    (year % 4 = 0 /\ year % 100 # 0) \/ year % 400 = 0

DaysPerMonth(year, month) ==
    IF month \in {4, 6, 9, 11} THEN 30
    ELSE IF month = 2 THEN (IF IsLeapYear(year) THEN 29 ELSE 28)
    ELSE 31

\* dfdatetime TimeElements(time_elements_tuple=...) accepts the tuple; it
\* raises ValueError otherwise.
IsValidTimeElements(t) ==
    /\ t[2] \in 1..12
    /\ t[3] \in 1..DaysPerMonth(t[1], t[2])
    /\ t[4] \in 0..23
    /\ t[5] \in 0..59
    /\ t[6] \in 0..59

\* The date and time value is returned without the local time flag being set.
ParseTimeElementsNotLocal(time_elements_structure) ==
    IF /\ ~IsNone(time_elements_structure)
       /\ Len(Get(time_elements_structure)) = 6
       /\ IsValidTimeElements(Get(time_elements_structure))
    THEN [error |-> "none",
          date_time |-> Some([time_elements_tuple |-> Get(time_elements_structure),
                              is_local_time |-> FALSE])]
    ELSE [error |-> "ParseError", date_time |-> None]

\* _ParseTimeElements: the date and time value, or ParseError.  The argument
\* is an optional tuple (None when the structure has no such value).
_ParseTimeElements(time_elements_structure) ==
    IF /\ ~IsNone(time_elements_structure)
       /\ Len(Get(time_elements_structure)) = 6
       /\ IsValidTimeElements(Get(time_elements_structure))
    THEN [error |-> "none",
          date_time |-> Some([time_elements_tuple |-> Get(time_elements_structure),
                              is_local_time |-> TRUE])]
    ELSE [error |-> "ParseError", date_time |-> None]

\* _GetValueFromStructure(structure, name)
_GetValueFromStructure(structure, name) ==
    IF name \in DOMAIN structure THEN Some(structure[name]) ELSE None

----------------------------------------------------------------------------
(* Event data and the lines of a log.                                      *)

\* APTHistoryLogEventData(): every attribute None.
APTHistoryLogEventData ==
    [command |-> None, command_line |-> None, end_time |-> None,
     error |-> None, packages |-> None, requester |-> None,
     start_time |-> None]

_SUPPORTED_KEYS == {"record_start", "record_body", "record_end"}

\* Date and time groups of start lines: 2019-07-10 16:38:12 and month 13.
StartDates == {<<2019, 7, 10, 16, 38, 12>>, <<2019, 13, 10, 16, 38, 12>>}

\* Date and time groups of end lines: 2019-07-10 16:38:20 and hour 25.
EndDates == {<<2019, 7, 10, 16, 38, 20>>, <<2019, 7, 10, 25, 38, 20>>}

\* Remainders of body lines: " a b\t", "c" and "  ".
TextAB == <<" ", "a", " ", "b", "\t">>
TextC == <<"c">>
TextBlank == <<" ", " ">>

\* (keyword, remainder) pairs of the body lines fed to the parser.
BodyInputs ==
    (BodyKeywords \X {TextAB})
        \cup ({KwCommandline, KwInstall} \X {TextC})
        \cup {<<KwError, TextBlank>>}

StartLines ==
    {[key |-> "record_start", structure |-> [start_date |-> d]] :
        d \in StartDates}

BodyLines ==
    {[key |-> "record_body",
      structure |-> [command |-> p[1], body |-> p[2]]] : p \in BodyInputs}

EndLines ==
    {[key |-> "record_end", structure |-> [end_date |-> d]] : d \in EndDates}

\* A line whose key is none of _LINE_STRUCTURES.
OtherLines == {[key |-> "record_header", structure |-> [text |-> TextC]]}

Lines == StartLines \cup BodyLines \cup EndLines \cup OtherLines

----------------------------------------------------------------------------
(* The XLSX output module: its class attributes and its constructor.       *)

_DEFAULT_FIELDS ==
    <<"datetime", "timestamp_desc", "source", "source_long", "message",
      "parser", "display_name", "tag">>

_DEFAULT_TIMESTAMP_FORMAT == "YYYY-MM-DD HH:MM:SS.000"

_MAXIMUM_COLUMN_WIDTH == 50

_MINIMUM_COLUMN_WIDTH == 6

\* The files that exist when the output module is constructed.
ExistingFiles == {"old.xlsx"}

\* XLSXOutputModule.__init__
XLSXOutputModuleInit ==
    /\ _column_widths = << >>
    /\ _current_row = 0
    /\ _fields = _DEFAULT_FIELDS
    /\ _filename = None
    /\ _sheet = None
    /\ _timestamp_format = _DEFAULT_TIMESTAMP_FORMAT
    /\ _workbook = None
    /\ files = ExistingFiles
    /\ event_errors = << >>
    /\ lifecycle = << >>

----------------------------------------------------------------------------
(* The plugin.                                                             *)

\* __init__
Init ==
    /\ XLSXOutputModuleInit
    /\ first = None
    /\ _event_data = None
    /\ emitted = << >>
    /\ warnings = << >>
    /\ lines = << >>
    /\ call = [op |-> "__init__"]
    /\ raised = "none"
    /\ returned = None

\* The stored values are kept.
KeepState == _event_data

\* _ResetState: the value of self._event_data afterwards.
_ResetState == None

\* An event data is created only when none is in flight: a start line met
\* while a record is Active keeps the attributes collected so far.
ParseRecordStartKeepsFields(structure) ==
    LET event_data ==
            IF IsNone(_event_data) THEN APTHistoryLogEventData
            ELSE Get(_event_data)
        parsed == _ParseTimeElements(
            _GetValueFromStructure(structure, "start_date"))
    IN  IF parsed.error = "none"
        THEN /\ _event_data' =
                    Some([event_data EXCEPT !.start_time = parsed.date_time])
             /\ warnings' = warnings
             /\ raised' = "none"
        ELSE /\ _event_data' = Some(event_data)
             /\ warnings' = Append(warnings, "unable to parse record start")
             /\ raised' = "none"

\* _ParseRecordStart, and the except clause of _ParseRecord around it.  The
\* new event data is stored before the date and time value is parsed.
_ParseRecordStart(structure) ==
    LET event_data == APTHistoryLogEventData
        parsed == _ParseTimeElements(
            _GetValueFromStructure(structure, "start_date"))
    IN  IF parsed.error = "none"
        THEN /\ _event_data' =
                    Some([event_data EXCEPT !.start_time = parsed.date_time])
             /\ warnings' = warnings
             /\ raised' = "none"
        ELSE /\ _event_data' = Some(event_data)
             /\ warnings' = Append(warnings, "unable to parse record start")
             /\ raised' = "none"

\* The first package action of a record keeps the command; the packages are
\* those of the last one.
BodyUpdateFirstCommand(event_data, command, body) ==
    IF command = KwCommandline
    THEN [event_data EXCEPT !.command_line = Some(Strip(body))]
    ELSE IF command = KwError
    THEN [event_data EXCEPT !.error = Some(Strip(body))]
    ELSE IF command = KwRequestedBy
    THEN [event_data EXCEPT !.requester = Some(Strip(body))]
    ELSE IF command \in PackageKeywords
    THEN [event_data EXCEPT
            !.command = IF event_data.command = None
                        THEN Some(DropLast(command)) ELSE event_data.command,
            !.packages = Some(Strip(body))]
    ELSE event_data

\* The event data after the assignments of _ParseRecordBody.
BodyUpdate(event_data, command, body) ==
    IF command = KwCommandline
    THEN [event_data EXCEPT !.command_line = Some(Strip(body))]
    ELSE IF command = KwError
    THEN [event_data EXCEPT !.error = Some(Strip(body))]
    ELSE IF command = KwRequestedBy
    THEN [event_data EXCEPT !.requester = Some(Strip(body))]
    ELSE IF command \in PackageKeywords
    THEN [event_data EXCEPT !.command = Some(DropLast(command)),
                            !.packages = Some(Strip(body))]
    ELSE event_data

\* Whether _ParseRecordBody assigns an attribute of self._event_data.
BodyAssigns(command) ==
    command \in {KwCommandline, KwError, KwRequestedBy} \cup PackageKeywords

\* _ParseRecordBody: setting an attribute of None raises AttributeError,
\* which _ParseRecord does not catch.
_ParseRecordBody(structure) ==
    LET command == structure.command
        body == structure.body
    IN  IF IsNone(_event_data) /\ BodyAssigns(command)
        THEN /\ raised' = "AttributeError"
             /\ UNCHANGED <<_event_data, warnings>>
        ELSE /\ _event_data' =
                    IF IsNone(_event_data) THEN _event_data
                    ELSE Some(BodyUpdate(Get(_event_data), command, body))
             /\ raised' = "none"
             /\ UNCHANGED warnings

\* _ParseRecordEnd, and the except clause of _ParseRecord around it.  The
\* right-hand side of the assignment to end_time is evaluated first.
_ParseRecordEnd(structure) ==
    LET parsed == _ParseTimeElements(
            _GetValueFromStructure(structure, "end_date"))
    IN  IF parsed.error = "ParseError"
        THEN /\ warnings' = Append(warnings, "unable to parse record end")
             /\ raised' = "none"
             /\ UNCHANGED <<_event_data, emitted>>
        ELSE IF IsNone(_event_data)
        THEN /\ raised' = "AttributeError"
             /\ UNCHANGED <<_event_data, emitted, warnings>>
        ELSE /\ emitted' = Append(emitted,
                    [Get(_event_data) EXCEPT !.end_time = parsed.date_time])
             /\ _event_data' = _ResetState
             /\ raised' = "none"
             /\ UNCHANGED warnings

\* An unsupported key is passed over in silence.
UnknownStructureIgnored ==
    /\ raised' = "none"
    /\ UNCHANGED <<_event_data, emitted, warnings>>

\* The first statement of _ParseRecord, for a key that is not supported:
\* ParseError is raised to the caller and nothing else is done.
UnknownStructure ==
    /\ raised' = "ParseError"
    /\ UNCHANGED <<_event_data, emitted, warnings>>

\* _ParseRecord(parser_mediator, key, structure)
_ParseRecord(key, structure) ==
    /\ lines' = Append(lines, [key |-> key, structure |-> structure])
    /\ call' = [op |-> "_ParseRecord"]
    /\ returned' = None
    /\ UNCHANGED <<first, xlsx_vars>>
    /\ IF key \notin _SUPPORTED_KEYS
       THEN UnknownStructure
       ELSE IF key = "record_start"
       THEN _ParseRecordStart(structure) /\ UNCHANGED emitted
       ELSE IF key = "record_body"
       THEN _ParseRecordBody(structure) /\ UNCHANGED emitted
       ELSE IF key = "record_end"
       THEN _ParseRecordEnd(structure)
       ELSE /\ raised' = "none"
            /\ UNCHANGED <<_event_data, emitted, warnings>>

\* The text parser feeds one more line to _ParseRecord: a start line, a body
\* line, an end line, or a line under an unknown key.
FeedStart ==
    /\ Len(lines) < MaxLines
    /\ \E line \in StartLines : _ParseRecord(line.key, line.structure)

FeedBody ==
    /\ Len(lines) < MaxLines
    /\ \E line \in BodyLines : _ParseRecord(line.key, line.structure)

FeedEnd ==
    /\ Len(lines) < MaxLines
    /\ \E line \in EndLines : _ParseRecord(line.key, line.structure)

FeedOther ==
    /\ Len(lines) < MaxLines
    /\ \E line \in OtherLines : _ParseRecord(line.key, line.structure)

Next == FeedStart \/ FeedBody \/ FeedEnd \/ FeedOther

Spec == Init /\ [][Next]_vars

----------------------------------------------------------------------------
(* The format check.                                                       *)

\* Date and time groups of probed lines: two valid ones (one a leap day), a
\* month 13, a 29 February of a common year, a minute 60, and a group that
\* lacks its seconds.
ProbeDates ==
    {<<2019, 7, 10, 16, 38, 12>>, <<2020, 2, 29, 0, 0, 0>>,
     <<2019, 13, 10, 16, 38, 12>>, <<2019, 2, 29, 23, 59, 59>>,
     <<2019, 7, 10, 16, 60, 12>>, <<2019, 7, 10, 16, 38>>}

\* What _ReadLineOfText gives: a decoding error, or a line, here its leading
\* literal and the numbers that follow it (an empty stream has neither).
ProbeInputs ==
    {[decode_error |-> TRUE, literal |-> "", elements |-> << >>]}
        \cup {[decode_error |-> FALSE, literal |-> l, elements |-> e] :
                l \in {"Start-Date:", "End-Date:", "Commandline:"},
                e \in ProbeDates}
        \cup {[decode_error |-> FALSE, literal |-> "", elements |-> << >>]}

\* Any literal followed by a date and time group is taken for a start line.
MatchesAnyDateLine(line) ==
    /\ Len(line.elements) = 6
    /\ line.elements[1] \in 0..9999
    /\ \A i \in 2..6 : line.elements[i] \in 0..99

\* _RECORD_START.parseString(line) succeeds: the literal 'Start-Date:', a
\* four-digit number and five two-digit numbers.
MatchesRecordStart(line) ==
    /\ line.literal = "Start-Date:"
    /\ Len(line.elements) = 6
    /\ line.elements[1] \in 0..9999
    /\ \A i \in 2..6 : line.elements[i] \in 0..99

\* CheckRequiredFormat(parser_mediator, text_file_object)
CheckRequiredFormat(text_file_object) ==
    /\ call' = [op |-> "CheckRequiredFormat", text_file_object |-> text_file_object]
    /\ raised' = "none"
    /\ UNCHANGED <<emitted, warnings, lines, first, xlsx_vars>>
    /\ IF text_file_object.decode_error
       THEN returned' = Some(FALSE) /\ UNCHANGED _event_data
       ELSE IF ~MatchesRecordStart(text_file_object)
       THEN returned' = Some(FALSE) /\ UNCHANGED _event_data
       ELSE LET parsed_structure ==
                    [start_date |-> text_file_object.elements]
                parsed == _ParseTimeElements(
                    _GetValueFromStructure(parsed_structure, "start_date"))
            IN  IF parsed.error = "ParseError"
                THEN returned' = Some(FALSE) /\ UNCHANGED _event_data
                ELSE /\ _event_data' = _ResetState
                     /\ returned' = Some(TRUE)

Probe == \E text_file_object \in ProbeInputs :
    CheckRequiredFormat(text_file_object)

\* The lines fed to a session that is also probed.
ProbedFeedStart ==
    /\ Len(lines) < MaxProbedLines
    /\ \E line \in StartLines : _ParseRecord(line.key, line.structure)

ProbedFeedBody ==
    /\ Len(lines) < MaxProbedLines
    /\ \E line \in BodyLines : _ParseRecord(line.key, line.structure)

ProbedFeedEnd ==
    /\ Len(lines) < MaxProbedLines
    /\ \E line \in EndLines : _ParseRecord(line.key, line.structure)

ProbedFeedOther ==
    /\ Len(lines) < MaxProbedLines
    /\ \E line \in OtherLines : _ParseRecord(line.key, line.structure)

NextProbe ==
    Probe \/ ProbedFeedStart \/ ProbedFeedBody \/ ProbedFeedEnd
        \/ ProbedFeedOther

SpecProbe == Init /\ [][NextProbe]_vars

----------------------------------------------------------------------------
(* _ParseTimeElements on its own.                                          *)

\* Time element structures: every combination of the components below (in
\* and out of range), the same with the seconds missing or with a seventh
\* number, and no structure at all.
SixElements ==
    {<<y, mo, d, h, mi, s>> :
        y \in {1900, 2000, 2019, 2020}, mo \in {0, 1, 2, 4, 12, 13},
        d \in {0, 1, 28, 29, 30, 31, 32}, h \in {0, 23, 24},
        mi \in {0, 59, 60}, s \in {0, 59, 60}}

TimeStructures ==
    {Some(t) : t \in SixElements}
        \cup {Some(SubSeq(t, 1, 5)) : t \in SixElements}
        \cup {Some(Append(t, 0)) : t \in SixElements}
        \cup {None}

\* A call of _ParseTimeElements on a new plugin; it reads and changes nothing
\* of the plugin, so one call per behaviour shows all it does.
ParseTime ==
    \E time_elements_structure \in TimeStructures :
        LET parsed == _ParseTimeElements(time_elements_structure)
        IN  /\ call.op = "__init__"
            /\ call' = [op |-> "_ParseTimeElements",
                        time_elements_structure |-> time_elements_structure]
            /\ raised' = parsed.error
            /\ returned' = parsed.date_time
            /\ UNCHANGED <<plugin_vars, xlsx_vars>>

NextTime == ParseTime

SpecTime == Init /\ [][NextTime]_vars

----------------------------------------------------------------------------
(* Two sessions.  A session is fed lines; then a new plugin is constructed *)
(* and fed lines of the first session again, from one of them on.          *)

\* The lines fed to the first session.
RecordedFeedStart ==
    /\ first = None
    /\ Len(lines) < MaxReplayedLines
    /\ \E line \in StartLines : _ParseRecord(line.key, line.structure)

RecordedFeedBody ==
    /\ first = None
    /\ Len(lines) < MaxReplayedLines
    /\ \E line \in BodyLines : _ParseRecord(line.key, line.structure)

RecordedFeedEnd ==
    /\ first = None
    /\ Len(lines) < MaxReplayedLines
    /\ \E line \in EndLines : _ParseRecord(line.key, line.structure)

RecordedFeedOther ==
    /\ first = None
    /\ Len(lines) < MaxReplayedLines
    /\ \E line \in OtherLines : _ParseRecord(line.key, line.structure)

\* A new plugin object is constructed (__init__): it has no event data, and
\* its parser mediator has no event data and no warnings.  What the earlier
\* session was fed and gave is kept in first, with the line to start again
\* from.
NewSession ==
    /\ first = None
    /\ \E from \in 1..Len(lines) :
            first' = Some([lines |-> lines,
                           emitted |-> emitted,
                           warnings |-> warnings,
                           _event_data |-> _event_data,
                           raised |-> raised,
                           from |-> from])
    /\ _event_data' = None
    /\ emitted' = << >>
    /\ warnings' = << >>
    /\ lines' = << >>
    /\ call' = [op |-> "__init__"]
    /\ raised' = "none"
    /\ returned' = None
    /\ UNCHANGED xlsx_vars

\* The new session is fed the next line of the first one.
Replay ==
    /\ first # None
    /\ LET session == Get(first)
           next == session.from + Len(lines)
       IN  /\ next <= Len(session.lines)
           /\ _ParseRecord(session.lines[next].key,
                           session.lines[next].structure)

NextReplay ==
    RecordedFeedStart \/ RecordedFeedBody \/ RecordedFeedEnd
        \/ RecordedFeedOther \/ NewSession \/ Replay

SpecReplay == Init /\ [][NextReplay]_vars

----------------------------------------------------------------------------
(* The XLSX output module: values, events, and _FormatDateTime.            *)

\* min and max of Python, of two integers.
Min(a, b) == IF a < b THEN a ELSE b

Max(a, b) == IF a > b THEN a ELSE b

\* A date and time is the number of days from 1970-01-01 to its date, the
\* second of its day, its microsecond, and its tzinfo: None, or the offset
\* from UTC in minutes.  An event timestamp, a number of microseconds since
\* 1970-01-01 00:00:00 UTC, is written as the days, seconds and microseconds
\* that datetime.timedelta(microseconds=...) makes of it.
SecondsPerDay == 86400

\* datetime.datetime(1970, 1, 1, 0, 0, 0, 0, tzinfo=pytz.UTC)
Epoch == [day |-> 0, second |-> 0, microsecond |-> 0, tzinfo |-> Some(0)]

\* The days of 0001-01-01 (datetime.MINYEAR) and of 9999-12-31
\* (datetime.MAXYEAR), and the largest number of days of a timedelta.
MinDay == -719162

MaxDay == 2932896

TimedeltaMaxDays == 999999999

\* datetime_object + timedelta, before the range of the result is checked.
AddTimedelta(datetime_object, timedelta) ==
    LET seconds == datetime_object.second + timedelta.seconds
        microseconds == datetime_object.microsecond + timedelta.microseconds
        carried == seconds + (microseconds \div 1000000)
    IN  [datetime_object EXCEPT
            !.day = datetime_object.day + timedelta.days
                        + (carried \div SecondsPerDay),
            !.second = carried % SecondsPerDay,
            !.microsecond = microseconds % 1000000]

\* datetime_object.astimezone(timezone), timezone being the offset from UTC
\* in minutes that the time zone has at that instant.
AsTimezone(datetime_object, timezone) ==
    LET shifted == datetime_object.second
                       + 60 * (timezone - datetime_object.tzinfo[1])
    IN  [datetime_object EXCEPT
            !.day = datetime_object.day + (shifted \div SecondsPerDay),
            !.second = shifted % SecondsPerDay,
            !.tzinfo = Some(timezone)]

\* The date is one that datetime.datetime can hold.
InRange(datetime_object) ==
    datetime_object.day >= MinDay /\ datetime_object.day <= MaxDay

\* A field value: a str (text, a sequence of characters), a date and time,
\* or the name of a field in the header row.
StrValue(text) ==
    [kind |-> "str", text |-> text, datetime |-> None, name |-> ""]

DatetimeValue(datetime_object) ==
    [kind |-> "datetime", text |-> << >>,
     datetime |-> Some(datetime_object), name |-> ""]

NameValue(field_name) ==
    [kind |-> "name", text |-> << >>, datetime |-> None, name |-> field_name]

\* _FormatDateTime(event, event_data): the value returned and the messages
\* given to _ReportEventError.  timezone is self._output_mediator.timezone.
_FormatDateTime(event, timezone) ==
    LET timestamp == event.timestamp
        datetime_object == AddTimedelta(Epoch, timestamp)
        converted == AsTimezone(datetime_object, timezone)
    IN  IF \/ timestamp.days > TimedeltaMaxDays
           \/ timestamp.days < -TimedeltaMaxDays
           \/ ~InRange(datetime_object)
           \/ ~InRange(converted)
        THEN [value |-> StrValue(<<"E", "R", "R", "O", "R">>),
              event_errors |-> <<"unable to copy timestamp">>]
        ELSE [value |-> DatetimeValue([datetime_object EXCEPT !.tzinfo = None]),
              event_errors |-> << >>]

\* Characters that _ILLEGAL_XML_RE matches (form feed and carriage return,
\* of the range \x0b-\x1f), and the character put in their place.
IllegalXmlCharacters == {"\f", "\r"}

ReplacementCharacter == "U+FFFD"

\* _SanitizeField(field)
_SanitizeField(field) ==
    [i \in 1..Len(field) |->
        IF field[i] \in IllegalXmlCharacters
        THEN ReplacementCharacter ELSE field[i]]

\* A field list with a short and a long field name, for SetFields.
LongFieldName == "a_rather_long_name_of_an_attribute_of_some_event_data"

CustomFields == <<"tag", "datetime", LongFieldName>>

FieldLists == {_DEFAULT_FIELDS, CustomFields}

AllFieldNames ==
    {_DEFAULT_FIELDS[i] : i \in 1..Len(_DEFAULT_FIELDS)}
        \cup {CustomFields[i] : i \in 1..Len(CustomFields)}

\* The formatted values of the fields of an event: short ones, and long ones
\* of which some hold an illegal character.
ShortValues == [field_name \in AllFieldNames |-> <<"o", "k">>]

LongValues ==
    [field_name \in AllFieldNames |->
        IF field_name = "message" THEN [i \in 1..60 |-> "x"]
        ELSE <<"a", "\f", "b", "\r", "c", "d", "e">>]

\* Events: one at the epoch with short values, and one a day after
\* 9999-12-31 with long values.
Events ==
    {[timestamp |-> [days |-> 0, seconds |-> 0, microseconds |-> 0],
      values |-> ShortValues],
     [timestamp |-> [days |-> MaxDay + 1, seconds |-> 0, microseconds |-> 0],
      values |-> LongValues]}

\* Offsets from UTC of the output mediator's time zone, in minutes.
Timezones == {0, 60}

\* self._dynamic_fields_helper.GetFormattedField(event, event_data,
\* event_tag, field_name): the event comes with its formatted values.
GetFormattedField(event, field_name) == event.values[field_name]

----------------------------------------------------------------------------
(* The XLSX output module: its methods.                                    *)

\* A call of a method of the output module is added to lifecycle with the
\* exception it raised.
Called(op, exception) ==
    lifecycle' = Append(lifecycle, [op |-> op, raised |-> exception])

\* The file name is taken to be set whenever it is not None.
FilenameIsNone == _filename = None

\* not self._filename
FilenameNotSet == _filename = None \/ _filename = Some("")

\* xlsxwriter.Workbook(self._filename, options)
Workbook ==
    [filename |-> Get(_filename),
     default_date_format |-> _timestamp_format,
     formats |-> 0]

\* self._workbook.add_worksheet('Sheet'): the cells written, the widths set
\* for its columns, its autofilter and its frozen panes.
Worksheet ==
    [cells |-> << >>, columns |-> {}, autofilter |-> None,
     freeze_panes |-> None]

\* Open()
Open ==
    /\ Len(lifecycle) < MaxCalls
    /\ IF FilenameNotSet
       THEN /\ Called("Open", "ValueError")
            /\ UNCHANGED <<_workbook, _sheet, _current_row>>
       ELSE IF Get(_filename) \in files
       THEN /\ Called("Open", "IOError")
            /\ UNCHANGED <<_workbook, _sheet, _current_row>>
       ELSE /\ Called("Open", "none")
            /\ _workbook' = Some(Workbook)
            /\ _sheet' = Some(Worksheet)
            /\ _current_row' = 0
    /\ UNCHANGED <<_filename, _fields, _timestamp_format, _column_widths,
                   files, event_errors, plugin_vars, last_call>>

\* SetFields(fields)
SetFields ==
    /\ Len(lifecycle) < MaxCalls
    /\ \E fields \in FieldLists : _fields' = fields
    /\ Called("SetFields", "none")
    /\ UNCHANGED <<_filename, _timestamp_format, _workbook, _sheet,
                   _current_row, _column_widths, files, event_errors,
                   plugin_vars, last_call>>

\* SetFilename(filename)
SetFilename ==
    /\ \E filename \in {"", "old.xlsx", "new.xlsx"} :
            _filename' = Some(filename)
    /\ UNCHANGED <<_fields, _timestamp_format, _workbook, _sheet,
                   _current_row, _column_widths, files, event_errors,
                   lifecycle, plugin_vars, last_call>>

\* SetTimestampFormat(timestamp_format)
SetTimestampFormat ==
    /\ \E timestamp_format \in {_DEFAULT_TIMESTAMP_FORMAT, "HH:MM:SS"} :
            _timestamp_format' = timestamp_format
    /\ UNCHANGED <<_filename, _fields, _workbook, _sheet, _current_row,
                   _column_widths, files, event_errors, lifecycle,
                   plugin_vars, last_call>>

\* The cells and the widths of the loop of WriteHeader.
HeaderCells ==
    [i \in 1..Len(_fields) |->
        [row |-> 0, column |-> i - 1, value |-> NameValue(_fields[i]),
         method |-> "write", cell_format |-> "bold"]]

HeaderWidths == [i \in 1..Len(_fields) |-> Len(_fields[i]) + 2]

\* WriteHeader().  A workbook comes with its sheet (Open), so that the
\* attribute of None that fails is that of self._workbook.
WriteHeader ==
    /\ Len(lifecycle) < MaxCalls
    /\ IF _workbook = None
       THEN /\ Called("WriteHeader", "AttributeError")
            /\ UNCHANGED <<_workbook, _sheet, _current_row, _column_widths>>
       ELSE /\ Called("WriteHeader", "none")
            /\ _workbook' = Some([Get(_workbook) EXCEPT !.formats = @ + 1])
            /\ _sheet' = Some([Get(_sheet) EXCEPT
                    !.cells = @ \o HeaderCells,
                    !.autofilter = Some(<<0, Len(_fields) - 1, 0, 0>>),
                    !.freeze_panes = Some(<<1, 0>>)])
            /\ _column_widths' = HeaderWidths
            /\ _current_row' = 1
    /\ UNCHANGED <<_filename, _fields, _timestamp_format, files,
                   event_errors, plugin_vars, last_call>>

\* The row is not advanced.
SameRow(row) == row

\* self._current_row += 1
NextRow(row) == row + 1

\* The loop of WriteEventBody from column_index on.  s holds the cells of the
\* sheet, the column widths, the event errors and the exception raised; the
\* loop ends with the first exception.  Without a sheet the write fails; with
\* no width stored for the column the cell is written and the max fails.
RECURSIVE WriteEventColumns(_, _, _, _)
WriteEventColumns(s, event, timezone, column_index) ==
    IF column_index >= Len(_fields) \/ s.raised # "none" THEN s
    ELSE
        LET field_name == _fields[column_index + 1]
            formatted == _FormatDateTime(event, timezone)
            field_value ==
                IF field_name = "datetime" THEN formatted.value
                ELSE StrValue(_SanitizeField(
                        GetFormattedField(event, field_name)))
            reported ==
                IF field_name = "datetime"
                THEN s.event_errors \o formatted.event_errors
                ELSE s.event_errors
            is_datetime ==
                field_name = "datetime" /\ field_value.kind = "datetime"
            cell ==
                [row |-> _current_row, column |-> column_index,
                 value |-> field_value,
                 method |-> IF is_datetime THEN "write_datetime" ELSE "write",
                 cell_format |-> ""]
            length ==
                IF is_datetime THEN Len(_timestamp_format) + 2
                ELSE Len(field_value.text) + 2
            column_width ==
                Max(Max(Min(length, _MAXIMUM_COLUMN_WIDTH),
                        _MINIMUM_COLUMN_WIDTH),
                    s.column_widths[column_index + 1])
        IN  IF ~s.has_sheet
            THEN [s EXCEPT !.event_errors = reported,
                           !.raised = "AttributeError"]
            ELSE IF column_index >= Len(s.column_widths)
            THEN [s EXCEPT !.event_errors = reported,
                           !.cells = Append(@, cell),
                           !.raised = "IndexError"]
            ELSE WriteEventColumns(
                    [s EXCEPT !.event_errors = reported,
                              !.cells = Append(@, cell),
                              !.column_widths[column_index + 1] = column_width],
                    event, timezone, column_index + 1)

\* WriteEventBody(event, event_data, event_tag)
WriteEventBody ==
    /\ Len(lifecycle) < MaxCalls
    /\ \E event \in Events, timezone \in Timezones :
        LET written == WriteEventColumns(
                [has_sheet |-> _sheet # None,
                 cells |-> IF _sheet = None THEN << >> ELSE Get(_sheet).cells,
                 column_widths |-> _column_widths,
                 event_errors |-> event_errors,
                 raised |-> "none"],
                event, timezone, 0)
        IN  /\ Called("WriteEventBody", written.raised)
            /\ _sheet' = IF _sheet = None THEN None
                         ELSE Some([Get(_sheet) EXCEPT !.cells = written.cells])
            /\ _column_widths' = written.column_widths
            /\ event_errors' = written.event_errors
            /\ _current_row' = IF written.raised = "none"
                               THEN NextRow(_current_row) ELSE _current_row
    /\ UNCHANGED <<_filename, _fields, _timestamp_format, _workbook, files,
                   plugin_vars, last_call>>

\* The widths of the columns of a sheet after set_column(column_index,
\* column_index, column_width) for each of the column widths.
SetColumns(columns, column_widths) ==
    {column \in columns : column.column >= Len(column_widths)}
        \cup {[column |-> i - 1, width |-> column_widths[i]] :
                i \in 1..Len(column_widths)}

\* Close().  xlsxwriter writes the file when the workbook is closed.
Close ==
    /\ Len(lifecycle) < MaxCalls
    /\ IF _column_widths # << >> /\ _sheet = None
       THEN /\ Called("Close", "AttributeError")
            /\ UNCHANGED <<_sheet, _workbook, files>>
       ELSE /\ _sheet' =
                    IF _sheet = None THEN None
                    ELSE Some([Get(_sheet) EXCEPT
                            !.columns = SetColumns(@, _column_widths)])
            /\ IF _workbook = None
               THEN /\ Called("Close", "AttributeError")
                    /\ UNCHANGED <<_workbook, files>>
               ELSE /\ Called("Close", "none")
                    /\ files' = files \cup {Get(_workbook).filename}
                    /\ _workbook' = None
    /\ UNCHANGED <<_filename, _fields, _timestamp_format, _current_row,
                   _column_widths, event_errors, plugin_vars, last_call>>

NextXlsx ==
    SetFilename \/ SetFields \/ SetTimestampFormat \/ Open \/ WriteHeader
        \/ WriteEventBody \/ Close

SpecXlsx == Init /\ [][NextXlsx]_vars

----------------------------------------------------------------------------
(* _FormatDateTime on its own.                                             *)

\* Event timestamps at and around the first and the last day of datetime and
\* the largest timedelta, and the offsets of four time zones.
FormatTimestamps ==
    {[days |-> days, seconds |-> seconds, microseconds |-> microseconds] :
        days \in {-TimedeltaMaxDays - 1, MinDay - 1, MinDay, -1, 0, 1, 18000,
                  MaxDay, MaxDay + 1, TimedeltaMaxDays + 1},
        seconds \in {0, 3600, 86399},
        microseconds \in {0, 999999}}

FormatTimezones == {-300, 0, 60, 330}

\* A call of _FormatDateTime on a new output module.
FormatDateTime ==
    \E timestamp \in FormatTimestamps, timezone \in FormatTimezones :
        LET event == [timestamp |-> timestamp, values |-> ShortValues]
            formatted == _FormatDateTime(event, timezone)
        IN  /\ call.op = "__init__"
            /\ call' = [op |-> "_FormatDateTime", event |-> event,
                        timezone |-> timezone]
            /\ raised' = "none"
            /\ returned' = Some(formatted.value)
            /\ event_errors' = event_errors \o formatted.event_errors
            /\ UNCHANGED <<plugin_vars, _filename, _fields,
                           _timestamp_format, _workbook, _sheet,
                           _current_row, _column_widths, files, lifecycle>>

NextFormat == FormatDateTime

SpecFormat == Init /\ [][NextFormat]_vars

----------------------------------------------------------------------------
(* Properties.  The definitions below state what is checked of the model;  *)
(* they describe lines and records without the operators that compute      *)
(* what the plugin does.                                                    *)

\* Days of each month of a year, as a table.
MonthTable(year) ==
    <<31, IF year % 400 = 0 \/ (year % 4 = 0 /\ year % 100 # 0) THEN 29 ELSE 28,
      31, 30, 31, 30, 31, 31, 30, 31, 30, 31>>

\* Six components that are a date and time of the calendar.
CalendarValid(t) ==
    /\ Len(t) = 6
    /\ t[2] >= 1 /\ t[2] <= 12
    /\ t[3] >= 1 /\ t[3] <= MonthTable(t[1])[t[2]]
    /\ t[4] >= 0 /\ t[4] < 24
    /\ t[5] >= 0 /\ t[5] < 60
    /\ t[6] >= 0 /\ t[6] < 60

\* The Timestamp of six components, flagged as local time.
LocalTimestamp(t) == Some([time_elements_tuple |-> t, is_local_time |-> TRUE])

IsStart(line) == line.key = "record_start"

IsBody(line) == line.key = "record_body"

IsEnd(line) == line.key = "record_end"

IsValidStart(line) == IsStart(line) /\ CalendarValid(line.structure.start_date)

IsInvalidStart(line) ==
    IsStart(line) /\ ~CalendarValid(line.structure.start_date)

IsValidEnd(line) == IsEnd(line) /\ CalendarValid(line.structure.end_date)

IsInvalidEnd(line) == IsEnd(line) /\ ~CalendarValid(line.structure.end_date)

IsOther(line) == line.key \notin {"record_start", "record_body", "record_end"}

\* r is s without its leading and trailing whitespace.
IsStripOf(r, s) ==
    \E i \in 0..Len(s), j \in 0..Len(s) :
        /\ i + j <= Len(s)
        /\ r = SubSeq(s, i + 1, Len(s) - j)
        /\ \A k \in 1..i : s[k] \in {" ", "\t"}
        /\ \A k \in (Len(s) - j + 1)..Len(s) : s[k] \in {" ", "\t"}
        /\ r # << >> => r[1] \notin {" ", "\t"} /\ r[Len(r)] \notin {" ", "\t"}

\* A valid start line, body lines only, a valid end line.
IsWellFormedRecord(h) ==
    /\ Len(h) >= 2
    /\ IsValidStart(h[1])
    /\ IsValidEnd(h[Len(h)])
    /\ \A i \in 2..(Len(h) - 1) : IsBody(h[i])

\* The positions in h of the body lines that carry one of the keywords.
Carrying(h, keywords) ==
    {i \in 1..Len(h) : IsBody(h[i]) /\ h[i].structure.command \in keywords}

Last(positions) == CHOOSE i \in positions : \A j \in positions : j <= i

\* field is absent when no line of h carries one of the keywords, and else
\* the stripped remainder of the last line that does.
TextFieldFrom(field, h, keywords) ==
    IF Carrying(h, keywords) = {}
    THEN field = None
    ELSE /\ Len(field) = 1
         /\ IsStripOf(field[1], h[Last(Carrying(h, keywords))].structure.body)

\* field is absent when no line of h carries a package keyword, and else
\* that keyword less its colon.
CommandFrom(field, h) ==
    IF Carrying(h, PackageKeywords) = {}
    THEN field = None
    ELSE /\ Len(field) = 1
         /\ field[1] \o <<":">> =
                h[Last(Carrying(h, PackageKeywords))].structure.command

\* record is what the lines of the well-formed record h say.
RecordOf(record, h) ==
    /\ record.start_time = LocalTimestamp(h[1].structure.start_date)
    /\ record.end_time = LocalTimestamp(h[Len(h)].structure.end_date)
    /\ TextFieldFrom(record.command_line, h, {KwCommandline})
    /\ TextFieldFrom(record.error, h, {KwError})
    /\ TextFieldFrom(record.requester, h, {KwRequestedBy})
    /\ TextFieldFrom(record.packages, h, PackageKeywords)
    /\ CommandFrom(record.command, h)

\* A step of _ParseRecord, and the line it is given.
Fed == Len(lines') = Len(lines) + 1

NewLine == lines'[Len(lines')]

\* A step that produces one warning.
Warned == Len(warnings') = Len(warnings) + 1

Idle == _event_data = None

\* C1: from a fresh session, a valid start line, any body lines and a valid
\* end line emit exactly one record and no warning; command_line, error,
\* requester and packages are the stripped remainders of the (last) body
\* lines that carry them, command is the package keyword without its colon,
\* the two times are those of the start and end lines, and a field no body
\* line carries is absent.
C1_WellFormedRecordEmitted ==
    IsWellFormedRecord(lines) =>
        /\ Len(emitted) = 1
        /\ warnings = << >>
        /\ raised = "none"
        /\ RecordOf(emitted[1], lines)

C1_Witness ==
    /\ Len(lines) = 4
    /\ IsWellFormedRecord(lines)
    /\ lines[2].structure = [command |-> KwCommandline, body |-> TextAB]
    /\ lines[3].structure.command = KwUpgrade
    /\ Len(emitted) = 1
    /\ emitted[1].command_line = Some(<<"a", " ", "b">>)
    /\ emitted[1].error = None

\* C2: a start line with an out-of-range date and time, processed while
\* Idle, produces a warning, emits nothing and leaves the session Idle
\* (_event_data is None).
C2_InvalidStartStaysIdle ==
    [][(Idle /\ Fed /\ IsInvalidStart(NewLine)) =>
            (Warned /\ emitted' = emitted /\ _event_data' = None)]_vars

\* C3: an end line with an out-of-range date and time, processed while a
\* record is Active, produces a warning, emits nothing and discards the
\* record: the session is Idle afterwards.
C3_InvalidEndDiscards ==
    [][(~Idle /\ Fed /\ IsInvalidEnd(NewLine)) =>
            (Warned /\ emitted' = emitted /\ _event_data' = None)]_vars

\* C4: a body line processed while Idle is discarded with a warning: no
\* exception leaves _ParseRecord, the session stays Idle, nothing is emitted.
C4_OrphanBodyWarned ==
    [][(Idle /\ Fed /\ IsBody(NewLine)) =>
            (/\ Warned
             /\ raised' = "none"
             /\ _event_data' = None
             /\ emitted' = emitted)]_vars

\* C5: an end line processed while Idle, its date and time valid or not, is
\* dropped with a warning: nothing is emitted, the session stays Idle and no
\* exception leaves _ParseRecord.
C5_OrphanEndWarned ==
    [][(Idle /\ Fed /\ IsEnd(NewLine)) =>
            (/\ Warned
             /\ raised' = "none"
             /\ _event_data' = None
             /\ emitted' = emitted)]_vars

\* C6 as stated: a line whose key is not one of the rule set produces a
\* warning and is skipped; _ParseRecord raises nothing, the accumulator is
\* as it was and nothing is emitted.
C6_UnknownKeyWarned ==
    [][Fed /\ IsOther(NewLine) =>
            (/\ Warned
             /\ raised' = "none"
             /\ _event_data' = _event_data
             /\ emitted' = emitted)]_vars

\* C6 as amended: a line whose key is not one of the rule set makes
\* _ParseRecord raise ParseError to its caller and produce no warning; the
\* accumulator is exactly as it was (Idle stays Idle, an Active record keeps
\* every field) and nothing is emitted.
C6_UnknownKeyRaises ==
    [][Fed /\ IsOther(NewLine) =>
            (/\ raised' = "ParseError"
             /\ warnings' = warnings
             /\ _event_data' = _event_data
             /\ emitted' = emitted)]_vars

C6_Witness ==
    /\ Len(lines) = 3
    /\ IsValidStart(lines[1])
    /\ IsBody(lines[2])
    /\ IsOther(lines[3])
    /\ raised = "ParseError"
    /\ _event_data # None
    /\ _event_data[1].command_line = Some(<<"c">>)

\* C7: after any prefix of lines no error has ended the parse, and a
\* well-formed record fed after the prefix has been emitted, as one record,
\* once its end line is processed.
C7_Recoverable ==
    /\ raised # "AttributeError"
    /\ \A k \in 1..Len(lines) :
            IsWellFormedRecord(SubSeq(lines, k, Len(lines))) =>
                /\ emitted # << >>
                /\ RecordOf(emitted[Len(emitted)], SubSeq(lines, k, Len(lines)))

\* C8: every record handed to ProduceEventData has a start_time and an
\* end_time, each a Timestamp that carries the local-time flag.
C8_EmittedTimesSet ==
    \A i \in 1..Len(emitted) :
        /\ emitted[i].start_time # None
        /\ emitted[i].end_time # None
        /\ emitted[i].start_time[1].is_local_time
        /\ emitted[i].end_time[1].is_local_time

\* A step of CheckRequiredFormat.
Probed == call'.op = "CheckRequiredFormat" /\ lines' = lines

Recognizable(input) ==
    /\ ~input.decode_error
    /\ input.literal = "Start-Date:"
    /\ CalendarValid(input.elements)

\* C10: CheckRequiredFormat returns True exactly when the line read matches
\* the start rule and its six components are a date and time of the
\* calendar; on a decoding error, a line that does not match (a body or end
\* line, an empty stream) or an out-of-range date and time it returns False,
\* and it never raises.
C10_ProbeResult ==
    call.op = "CheckRequiredFormat" =>
        /\ raised = "none"
        /\ returned = Some(Recognizable(call.text_file_object))

C10_Witness ==
    /\ call.op = "CheckRequiredFormat"
    /\ call.text_file_object.literal = "Start-Date:"
    /\ call.text_file_object.elements = <<2020, 2, 29, 0, 0, 0>>
    /\ returned = Some(TRUE)

\* C12: _ParseTimeElements is all or nothing.  Given exactly six components
\* that are a date and time of the calendar it returns a Timestamp holding
\* those six values, flagged as local time; given anything else (a component
\* out of range, five or seven components, no structure) it raises
\* ParseError and returns no timestamp.
C12_TimeElementsAllOrNothing ==
    call.op = "_ParseTimeElements" =>
        LET given == call.time_elements_structure
        IN  IF given # None /\ CalendarValid(given[1])
            THEN raised = "none" /\ returned = LocalTimestamp(given[1])
            ELSE raised = "ParseError" /\ returned = None

C12_Witness ==
    /\ call.op = "_ParseTimeElements"
    /\ call.time_elements_structure = Some(<<2020, 2, 29, 23, 59, 59>>)
    /\ returned = LocalTimestamp(<<2020, 2, 29, 23, 59, 59>>)

C12_WitnessRejected ==
    /\ call.op = "_ParseTimeElements"
    /\ call.time_elements_structure = Some(<<1900, 2, 29, 0, 0, 0>>)
    /\ raised = "ParseError"
    /\ returned = None

\* The number of end lines with a valid date and time fed so far.
ValidEndsFed == Cardinality({i \in 1..Len(lines) : IsValidEnd(lines[i])})

\* C13: a record is emitted only by an end line whose date and time parse.
\* There are never more emitted records than valid end lines fed (a record
\* whose end line was not fed is not emitted, and start, body, unmatched and
\* invalid end lines emit nothing); a step that emits is a step on a valid
\* end line, it emits one record, and the session is Idle right after it.
C13_EmittedOnlyByValidEnd ==
    /\ [](Len(emitted) <= ValidEndsFed)
    /\ [][emitted' # emitted =>
            (/\ Fed
             /\ IsValidEnd(NewLine)
             /\ Len(emitted') = Len(emitted) + 1
             /\ SubSeq(emitted', 1, Len(emitted)) = emitted
             /\ _event_data' = None)]_vars

C13_Witness ==
    /\ Len(lines) = 4
    /\ IsWellFormedRecord(SubSeq(lines, 1, 3))
    /\ IsValidStart(lines[4])
    /\ Len(emitted) = 1
    /\ _event_data # None

\* The positions of the start lines among the first n lines of h.
StartsBefore(h, n) == {i \in 1..n : IsStart(h[i])}

\* record is what the lines of segment say, a segment being a start line
\* (valid or not) and the lines after it up to a valid end line.
SegmentRecord(record, segment) ==
    /\ record.start_time =
            IF IsValidStart(segment[1])
            THEN LocalTimestamp(segment[1].structure.start_date)
            ELSE None
    /\ record.end_time =
            LocalTimestamp(segment[Len(segment)].structure.end_date)
    /\ TextFieldFrom(record.command_line, segment, {KwCommandline})
    /\ TextFieldFrom(record.error, segment, {KwError})
    /\ TextFieldFrom(record.requester, segment, {KwRequestedBy})
    /\ TextFieldFrom(record.packages, segment, PackageKeywords)
    /\ CommandFrom(record.command, segment)

\* C14: record isolation.  When an end line emits a record, a start line
\* precedes it, no record was emitted since the most recent start line, and
\* the start_time and every body field of the record are those of the lines
\* from that start line on: nothing of an earlier record, emitted or
\* abandoned, is in it.
C14_RecordIsolation ==
    (/\ Len(lines) >= 1
     /\ IsValidEnd(lines[Len(lines)])
     /\ raised = "none") =>
        /\ StartsBefore(lines, Len(lines) - 1) # {}
        /\ emitted # << >>
        /\ LET k == Last(StartsBefore(lines, Len(lines) - 1))
           IN  /\ \A j \in (k + 1)..(Len(lines) - 1) : ~IsValidEnd(lines[j])
               /\ SegmentRecord(emitted[Len(emitted)],
                                SubSeq(lines, k, Len(lines)))

C14_Witness ==
    /\ Len(lines) = 4
    /\ IsValidStart(lines[1])
    /\ IsBody(lines[2])
    /\ lines[2].structure.command = KwCommandline
    /\ IsValidStart(lines[3])
    /\ IsValidEnd(lines[4])
    /\ Len(emitted) = 1
    /\ emitted[1].command_line = None

\* The attributes of an event data, and those a body line assigns.
FieldNames ==
    {"command", "command_line", "end_time", "error", "packages",
     "requester", "start_time"}

OwnFields(keyword) ==
    IF keyword = KwCommandline THEN {"command_line"}
    ELSE IF keyword = KwError THEN {"error"}
    ELSE IF keyword = KwRequestedBy THEN {"requester"}
    ELSE {"command", "packages"}

\* C15: the last line wins.  In every accumulator and every emitted record
\* command is absent exactly when packages is; the fields of the accumulator
\* are those of the last lines, since the most recent start line, that carry
\* their keywords, command and packages coming from the same last package
\* line; and a body line changes no field but its own.
C15_LastLineWins ==
    /\ [](/\ \A i \in 1..Len(emitted) :
                emitted[i].command = None <=> emitted[i].packages = None
          /\ _event_data # None =>
                LET k == Last(StartsBefore(lines, Len(lines)))
                    segment == SubSeq(lines, k, Len(lines))
                    event_data == _event_data[1]
                IN  /\ event_data.command = None <=> event_data.packages = None
                    /\ TextFieldFrom(event_data.command_line, segment,
                                     {KwCommandline})
                    /\ TextFieldFrom(event_data.error, segment, {KwError})
                    /\ TextFieldFrom(event_data.requester, segment,
                                     {KwRequestedBy})
                    /\ TextFieldFrom(event_data.packages, segment,
                                     PackageKeywords)
                    /\ CommandFrom(event_data.command, segment))
    /\ [][(~Idle /\ Fed /\ IsBody(NewLine)) =>
            (/\ _event_data' # None
             /\ \A f \in FieldNames \ OwnFields(NewLine.structure.command) :
                    _event_data'[1][f] = _event_data[1][f])]_vars

C15_Witness ==
    /\ Len(lines) = 3
    /\ IsValidStart(lines[1])
    /\ lines[2].structure = [command |-> KwInstall, body |-> TextC]
    /\ lines[3].structure = [command |-> KwUpgrade, body |-> TextAB]
    /\ _event_data # None
    /\ _event_data[1].command = Some(<<"U", "p", "g", "r", "a", "d", "e">>)
    /\ _event_data[1].packages = Some(<<"a", " ", "b">>)

\* The event data has no body field and no end_time.
BodyFieldsEmpty(event_data) ==
    \A f \in FieldNames \ {"start_time"} : event_data[f] = None

IsSuffix(s, t) ==
    /\ Len(s) <= Len(t)
    /\ SubSeq(t, Len(t) - Len(s) + 1, Len(t)) = s

\* The new session has been fed every line of the first one from `from` on.
Replayed ==
    /\ first # None
    /\ first[1].from + Len(lines) = Len(first[1].lines) + 1

CallOf(op) ==
    /\ Len(lifecycle') = Len(lifecycle) + 1
    /\ lifecycle'[Len(lifecycle')].op = op

\* C17: Open raises ValueError when the file name is not set (None or
\* empty) and IOError when a file of that name exists, and then leaves
\* _workbook, _sheet and _current_row as they were and creates no file; else
\* it raises nothing, makes a workbook of that name and an empty sheet, and
\* sets _current_row to 0.
C17_OpenFailsOrCreates ==
    [][CallOf("Open") =>
        LET exception == lifecycle'[Len(lifecycle')].raised
        IN  IF _filename = None \/ _filename = Some("")
            THEN /\ exception = "ValueError"
                 /\ UNCHANGED <<_workbook, _sheet, _current_row, files>>
            ELSE IF _filename[1] \in files
            THEN /\ exception = "IOError"
                 /\ UNCHANGED <<_workbook, _sheet, _current_row, files>>
            ELSE /\ exception = "none"
                 /\ _workbook' # None
                 /\ _workbook'[1].filename = _filename[1]
                 /\ _sheet' # None
                 /\ _sheet'[1].cells = << >>
                 /\ _current_row' = 0
                 /\ files' = files]_vars

C17_Witness ==
    /\ lifecycle # << >>
    /\ lifecycle[Len(lifecycle)] = [op |-> "Open", raised |-> "IOError"]
    /\ _filename = Some("new.xlsx")
    /\ _workbook = None
    /\ _sheet # None
    /\ _current_row = 1

\* From the i-th call on, the calls are an Open that made the workbook, a
\* WriteHeader, and after it calls of WriteEventBody only: the field list is
\* not set in between and the workbook is not closed.
HeaderThenEvents(i) ==
    /\ i + 1 <= Len(lifecycle)
    /\ lifecycle[i] = [op |-> "Open", raised |-> "none"]
    /\ lifecycle[i + 1].op = "WriteHeader"
    /\ \A j \in (i + 2)..Len(lifecycle) : lifecycle[j].op = "WriteEventBody"

\* C18: after Open, WriteHeader and k calls of WriteEventBody, none of which
\* raised, the sheet was given the header in row 0, one cell per field, and
\* then for the e-th event one cell per field in row e, columns in order, and
\* _current_row is k + 1.
C18_RowsInOrder ==
    \A i \in 1..Len(lifecycle) :
        HeaderThenEvents(i) =>
            LET k == Len(lifecycle) - i - 1
                n == Len(_fields)
                cells == _sheet[1].cells
            IN  /\ \A j \in i..Len(lifecycle) : lifecycle[j].raised = "none"
                /\ _current_row = k + 1
                /\ Len(cells) = n * (k + 1)
                /\ \A c \in 1..n :
                        /\ cells[c].row = 0
                        /\ cells[c].column = c - 1
                        /\ cells[c].value = NameValue(_fields[c])
                /\ \A e \in 1..k : \A c \in 1..n :
                        /\ cells[e * n + c].row = e
                        /\ cells[e * n + c].column = c - 1
                        /\ cells[e * n + c].value.kind # "name"

C18_Witness ==
    /\ HeaderThenEvents(1)
    /\ Len(lifecycle) = 4
    /\ _current_row = 3
    /\ Len(_sheet[1].cells) = 3 * Len(_fields)

\* C19: every column width stored, and every width set for a column of the
\* sheet on Close, is at least _MINIMUM_COLUMN_WIDTH and at most
\* _MAXIMUM_COLUMN_WIDTH.
C19_ColumnWidthsBounded ==
    /\ \A i \in 1..Len(_column_widths) :
            /\ _column_widths[i] >= _MINIMUM_COLUMN_WIDTH
            /\ _column_widths[i] <= _MAXIMUM_COLUMN_WIDTH
    /\ _sheet # None =>
            \A column \in _sheet[1].columns :
                /\ column.width >= _MINIMUM_COLUMN_WIDTH
                /\ column.width <= _MAXIMUM_COLUMN_WIDTH

\* The date and time, without tzinfo, that a clock of the time zone shows at
\* the instant timestamp.
WallClock(timestamp, timezone) ==
    LET shifted == timestamp.seconds + 60 * timezone
    IN  [day |-> timestamp.days + (shifted \div 86400),
         second |-> shifted % 86400,
         microsecond |-> timestamp.microseconds,
         tzinfo |-> None]

\* C20: _FormatDateTime returns the date and time of the event in the time
\* zone of the output mediator, without tzinfo; when that or the date and
\* time in UTC is none datetime can hold, it reports one event error and
\* returns 'ERROR'.  It raises nothing.
C20_ConfiguredTimezone ==
    call.op = "_FormatDateTime" =>
        LET timestamp == call.event.timestamp
            local == WallClock(timestamp, call.timezone)
            utc == WallClock(timestamp, 0)
        IN  /\ raised = "none"
            /\ IF /\ utc.day >= MinDay /\ utc.day <= MaxDay
                  /\ local.day >= MinDay /\ local.day <= MaxDay
               THEN /\ returned = Some(DatetimeValue(local))
                    /\ event_errors = << >>
               ELSE /\ returned = Some(StrValue(<<"E", "R", "R", "O", "R">>))
                    /\ Len(event_errors) = 1

====
